---------------------------- MODULE Spec2Model ----------------------------
(***************************************************************************)
(* A state-machine model of the FUTO campus media blog backend:            *)
(*   - blog/views.py        PostViewSet (create, update, comments, like)   *)
(*   - blog/models.py       Post, Comment, Like, ensure_slug               *)
(*   - blog/serializers.py  PostCreateSerializer, CommentSerializer        *)
(*   - blog/management/commands/fix_and_migrate_images.py                  *)
(*   - blog/management/commands/migrate_media_to_cloudinary.py             *)
(*                                                                         *)
(* Strings are sequences of one-character strings, so that slicing,        *)
(* prefix tests, substring search and percent-decoding are computed as     *)
(* the Python code computes them.  The empty sequence stands for both ''   *)
(* and None wherever the code tests a value for truthiness.                *)
(***************************************************************************)
EXTENDS Integers, Sequences, FiniteSets, TLC

VARIABLES
    posts,               \* Post table: id -> [title, content, image, slug]
    comments,            \* Comment table: id -> [post, parent]  (parent 0 = NULL)
    likes,               \* Like table as a bag: <<post id, visitor_id>> -> number of rows
    cloudinaryAvailable, \* views._CLOUDINARY_AVAILABLE
    uploads,             \* remote URLs the upload collaborator has been invoked with
    pc,                  \* per request worker: position in its handler
    loc,                 \* per request worker: the handler's request data and locals
    resp,                \* the response returned last, by any worker
    toggles,             \* history: completed like requests per (post, visitor_id)
    cmd,                 \* management command being run
    storage,             \* what post.image is: a stored file of a media storage, or a resource
    cloudName,           \* settings.CLOUDINARY_CLOUD_NAME is set
    files,               \* local paths for which os.path.exists is true
    idx,                 \* management command: index of the next post of the loop
    run,                 \* management command: number of the current run
    counters,            \* management command: [migrated, fixed, skipped, errors]
    sweepLog,            \* history: what the loop body did for each post of this run
    firstRun,            \* history: stored images and errors when run 1 finished
    norm                 \* a call of _normalize_candidate: its argument and results

storeVars == <<posts, comments, likes>>
workerVars == <<pc, loc, resp>>
sweepVars == <<cmd, storage, cloudName, files, idx, run, counters, sweepLog,
               firstRun>>
vars == <<posts, comments, likes, cloudinaryAvailable, uploads, pc, loc, resp,
          toggles, cmd, storage, cloudName, files, idx, run, counters, sweepLog,
          firstRun, norm>>

---------------------------------------------------------------------------
(* Bounds of the model *)

MaxToggles == 3     \* sequential like requests counted per (post, visitor_id)
MaxComments == 3    \* comments created
MaxPosts == 1       \* posts created through the write path
MaxRuns == 2        \* consecutive runs of a management command
MaxSweepPosts == 2  \* posts stored when a management command runs
MaxEncodings == 4   \* times a candidate, or its asset key, is percent-encoded
MaxCreates == 2     \* posts created by concurrent create requests

\* two request workers, so that two requests can be in flight at once
Workers == {1, 2}

---------------------------------------------------------------------------
(* Python str operations on sequences of characters *)

StartsWith(s, p) == Len(s) >= Len(p) /\ SubSeq(s, 1, Len(p)) = p

\* s[n:]
Drop(s, n) == SubSeq(s, n + 1, Len(s))

\* s[:n]
Take(s, n) == SubSeq(s, 1, IF n < Len(s) THEN n ELSE Len(s))

\* positions (1-based) at which p occurs in s
Occurrences(s, p) ==
    {i \in 1..(Len(s) - Len(p) + 1) : SubSeq(s, i, i + Len(p) - 1) = p}

\* p in s
Contains(s, p) == Occurrences(s, p) # {}

\* s.find(p) as a 1-based position, 0 standing for Python's -1
Find(s, p) ==
    IF Occurrences(s, p) = {} THEN 0
    ELSE CHOOSE i \in Occurrences(s, p) : \A j \in Occurrences(s, p) : i <= j

\* s.rfind(p) as a 1-based position, 0 standing for Python's -1
RFind(s, p) ==
    IF Occurrences(s, p) = {} THEN 0
    ELSE CHOOSE i \in Occurrences(s, p) : \A j \in Occurrences(s, p) : i >= j

RECURSIVE LStripChars(_, _)
\* s.lstrip(chars)
LStripChars(s, chars) ==
    IF s # <<>> /\ Head(s) \in chars THEN LStripChars(Tail(s), chars) ELSE s

RECURSIVE RStripChars(_, _)
\* s.rstrip(chars)
RStripChars(s, chars) ==
    IF s # <<>> /\ s[Len(s)] \in chars
    THEN RStripChars(SubSeq(s, 1, Len(s) - 1), chars) ELSE s

Digit == <<"0", "1", "2", "3", "4", "5", "6", "7", "8", "9">>

RECURSIVE IntToStr(_)
\* str(n) for n >= 0
IntToStr(n) ==
    IF n < 10 THEN <<Digit[n + 1]>>
    ELSE IntToStr(n \div 10) \o <<Digit[(n % 10) + 1]>>

---------------------------------------------------------------------------
(* The persistent store *)

PostIds == DOMAIN posts
CommentIds == DOMAIN comments

\* Post.objects.filter(slug=slug): ids of the stored posts with that slug
PostsWithSlug(slug) == {i \in PostIds : posts[i].slug = slug}

\* self.get_object() with lookup_field = "slug": the post id, 0 standing for Http404
GetObject(slug) ==
    IF PostsWithSlug(slug) = {} THEN 0 ELSE CHOOSE i \in PostsWithSlug(slug) : TRUE

Idle == [op |-> "none"]
NoResponse == [op |-> "none", status |-> 0]

\* every worker other than w is between requests
OthersIdle(w) == \A u \in Workers \ {w} : pc[u] = "idle"

---------------------------------------------------------------------------
(* PostViewSet.like *)

\* request.data.get("visitor_id") values; <<>> is an absent or empty field
VisitorIds == {<<>>, <<"v">>}
\* request.META.get("REMOTE_ADDR") values; <<>> is an absent address
RemoteAddrs == {<<>>, <<"9">>}

\* visitor_id = request.data.get("visitor_id") or REMOTE_ADDR or str(post.id)
EffectiveVisitor(visitor_id, remote_addr, post) ==
    IF visitor_id # <<>> THEN visitor_id
    ELSE IF remote_addr # <<>> THEN remote_addr
    ELSE IntToStr(post)

\* mutation: the existence test always answers "no such like"
LikeQsExistsNever(tbl, key) == FALSE

\* like_qs.exists() for Like.objects.filter(post=post, visitor_id=visitor_id)
LikeQsExists(tbl, key) == tbl[key] > 0

\* mutation: the table has no unique constraint
UniqueTogetherNotEnforced(tbl, key) == TRUE

\* Like.Meta.unique_together = ("post", "visitor_id"): may a row for key be inserted
UniqueTogether(tbl, key) == tbl[key] = 0

RECURSIVE SumCounts(_, _)
SumCounts(tbl, keys) ==
    IF keys = {} THEN 0
    ELSE LET k == CHOOSE x \in keys : TRUE
         IN tbl[k] + SumCounts(tbl, keys \ {k})

\* post.likes.count()
LikesCount(tbl, post) == SumCounts(tbl, {k \in DOMAIN tbl : k[1] = post})

\* views.py:182-184: look the post up and derive the visitor id
LikeStart(w, slug, visitor_id, remote_addr) ==
    /\ pc[w] = "idle"
    /\ LET post == GetObject(slug) IN
       IF post = 0
       THEN /\ resp' = [op |-> "like", status |-> 404, worker |-> w]
            /\ UNCHANGED <<pc, loc>>
       ELSE /\ pc' = [pc EXCEPT ![w] = "like_exists"]
            /\ loc' = [loc EXCEPT ![w] =
                   [op |-> "like", post |-> post,
                    visitor |-> EffectiveVisitor(visitor_id, remote_addr, post),
                    exists |-> FALSE, liked |-> FALSE,
                    before |-> LikesCount(likes, post)]]
            /\ UNCHANGED resp
    /\ UNCHANGED <<storeVars, cloudinaryAvailable, norm, uploads, sweepVars>>

\* views.py:185: if like_qs.exists()
LikeExists(w) ==
    /\ pc[w] = "like_exists"
    /\ loc' = [loc EXCEPT ![w].exists =
                   LikeQsExists(likes, <<loc[w].post, loc[w].visitor>>)]
    /\ pc' = [pc EXCEPT ![w] = "like_write"]
    /\ UNCHANGED <<storeVars, cloudinaryAvailable, norm, uploads, resp, sweepVars>>

\* views.py:186 like_qs.delete()  /  views.py:190 Like.objects.create(...)
LikeWrite(w) ==
    /\ pc[w] = "like_write"
    /\ LET key == <<loc[w].post, loc[w].visitor>> IN
       IF loc[w].exists
       THEN /\ likes' = [likes EXCEPT ![key] = 0]
            /\ loc' = [loc EXCEPT ![w].liked = FALSE]
            /\ pc' = [pc EXCEPT ![w] = "like_count"]
            /\ UNCHANGED resp
       ELSE IF UniqueTogether(likes, key)
       THEN /\ likes' = [likes EXCEPT ![key] = @ + 1]
            /\ loc' = [loc EXCEPT ![w].liked = TRUE]
            /\ pc' = [pc EXCEPT ![w] = "like_count"]
            /\ UNCHANGED resp
       ELSE \* IntegrityError, not caught by the view: a server error response
            /\ resp' = [op |-> "like", status |-> 500, worker |-> w,
                        post |-> loc[w].post, visitor |-> loc[w].visitor]
            /\ loc' = [loc EXCEPT ![w] = Idle]
            /\ pc' = [pc EXCEPT ![w] = "idle"]
            /\ UNCHANGED likes
    /\ UNCHANGED <<posts, comments, cloudinaryAvailable, norm, uploads, sweepVars>>

\* views.py:187-188 / 191-192: likes_count = post.likes.count(); return Response
LikeRespond(w) ==
    /\ pc[w] = "like_count"
    /\ resp' = [op |-> "like", status |-> 200, worker |-> w,
                post |-> loc[w].post, visitor |-> loc[w].visitor,
                likes_count |-> LikesCount(likes, loc[w].post),
                liked |-> loc[w].liked,
                before |-> loc[w].before,
                n |-> toggles[<<loc[w].post, loc[w].visitor>>] + 1]
    /\ loc' = [loc EXCEPT ![w] = Idle]
    /\ pc' = [pc EXCEPT ![w] = "idle"]
    /\ UNCHANGED <<storeVars, cloudinaryAvailable, norm, uploads, sweepVars>>

\* slugs of like requests: the stored post's, and one that no post has
LikeSlugs == {<<"a">>, <<"z">>}

---------------------------------------------------------------------------
(* PostViewSet.comments, POST *)

\* name and content values of a comment request; <<>> is a missing or blank field
CommentTexts == {<<>>, <<"n">>}

\* CommentSerializer.is_valid(): name and content are required and not blank;
\* parent is optional (0) and otherwise the pk of a stored comment
CommentIsValid(name, content, parent) ==
    /\ name # <<>>
    /\ content # <<>>
    /\ parent = 0 \/ parent \in CommentIds

\* mutation: the view does not compare the parent's post with the post addressed
ParentPostNotChecked(parent, post) == FALSE

\* views.py:174: parent is not None and parent.post_id != post.id
ParentOfOtherPost(parent, post) == parent # 0 /\ comments[parent].post # post

\* views.py:163-178 for a POST
CommentPost(w, slug, name, content, parent) ==
    /\ pc[w] = "idle"
    /\ LET post == GetObject(slug) IN
       IF post = 0
       THEN /\ resp' = [op |-> "comment", status |-> 404, worker |-> w]
            /\ UNCHANGED comments
       ELSE IF ~CommentIsValid(name, content, parent)
       THEN /\ resp' = [op |-> "comment", status |-> 400, worker |-> w,
                        post |-> post, parent |-> parent, key |-> "fields"]
            /\ UNCHANGED comments
       ELSE IF ParentOfOtherPost(parent, post)
       THEN /\ resp' = [op |-> "comment", status |-> 400, worker |-> w,
                        post |-> post, parent |-> parent, key |-> "parent"]
            /\ UNCHANGED comments
       ELSE /\ Len(comments) < MaxComments
            /\ comments' = Append(comments, [post |-> post, parent |-> parent])
            /\ resp' = [op |-> "comment", status |-> 201, worker |-> w,
                        post |-> post, parent |-> parent,
                        key |-> "", id |-> Len(comments) + 1]
    /\ UNCHANGED <<posts, likes, cloudinaryAvailable, norm, uploads, pc, loc, toggles,
                   sweepVars>>

---------------------------------------------------------------------------
(* blog/models.py: slugs *)

UpperCase == <<"A", "B">>
LowerCase == <<"a", "b">>

\* str.lower() of one character
LowerChar(c) ==
    IF \E i \in 1..Len(UpperCase) : UpperCase[i] = c
    THEN LowerCase[CHOOSE i \in 1..Len(UpperCase) : UpperCase[i] = c]
    ELSE c

\* characters matched by \w, by \s and the hyphen
WordChars == {"a", "b", "0", "1", "2", "3", "4", "5", "6", "7", "8", "9", "_"}
SpaceChars == {" "}

RECURSIVE KeepSlugChars(_)
\* re.sub(r"[^\w\s-]", "", value.lower())
KeepSlugChars(s) ==
    IF s = <<>> THEN <<>>
    ELSE LET c == LowerChar(Head(s)) IN
         IF c \in WordChars \cup SpaceChars \cup {"-"}
         THEN <<c>> \o KeepSlugChars(Tail(s))
         ELSE KeepSlugChars(Tail(s))

RECURSIVE CollapseSeparators(_)
\* re.sub(r"[-\s]+", "-", value)
CollapseSeparators(s) ==
    IF s = <<>> THEN <<>>
    ELSE IF Head(s) \in SpaceChars \cup {"-"}
    THEN <<"-">> \o CollapseSeparators(LStripChars(s, SpaceChars \cup {"-"}))
    ELSE <<Head(s)>> \o CollapseSeparators(Tail(s))

\* django.utils.text.slugify(value)
Slugify(value) ==
    LStripChars(RStripChars(CollapseSeparators(KeepSlugChars(value)), {"-", "_"}),
                {"-", "_"})

SlugBaseLength == 200

\* ModelClass.objects.filter(slug=slug).exclude(pk=instance.pk).exists()
SlugTaken(slug, pk) == \E i \in PostIds : i # pk /\ posts[i].slug = slug

RECURSIVE SlugLoop(_, _, _, _)
\* the while loop of generate_unique_slug
SlugLoop(base, slug, counter, pk) ==
    IF SlugTaken(slug, pk)
    THEN SlugLoop(base, base \o <<"-">> \o IntToStr(counter), counter + 1, pk)
    ELSE slug

\* generate_unique_slug(instance, value), pk = 0 for an instance not yet saved
GenerateUniqueSlug(pk, value) ==
    LET base == Take(Slugify(value), SlugBaseLength)
    IN SlugLoop(base, base, 1, pk)

\* mutation: the receiver regenerates the slug on every save
EnsureSlugAlways(inst) == [inst EXCEPT !.slug = GenerateUniqueSlug(inst.id, inst.title)]

\* ensure_slug, the pre_save receiver: if not instance.slug
EnsureSlug(inst) ==
    IF inst.slug = <<>>
    THEN [inst EXCEPT !.slug = GenerateUniqueSlug(inst.id, inst.title)]
    ELSE inst

\* Post.slug unique=True: may a row with this slug be written for pk
SlugUnique(slug, pk) == ~SlugTaken(slug, pk)

---------------------------------------------------------------------------
(* PostViewSet.create and PostViewSet.update *)

\* request field values; <<>> is a field the request does not carry
Titles == {<<>>, <<"A", " ">>, <<"!">>}
Contents == {<<>>, <<"c">>}
ImageFiles == {<<>>, <<"f">>}
ImageUrls == {<<>>, <<"u">>}
ClientSlugs == {<<>>, <<"x">>}
RequestData == [title : Titles, content : Contents, image : ImageFiles,
                image_url : ImageUrls, slug : ClientSlugs]

\* results of cloudinary.uploader.upload: an exception, or a result dict
UploadResults == {[raised |-> TRUE, public_id |-> <<>>],
                  [raised |-> FALSE, public_id |-> <<>>],
                  [raised |-> FALSE, public_id |-> <<"p">>]}

\* mutation: a result without public_id is not treated as a failure
UploadFailedOnlyIfRaised(result) == result.raised

\* _upload_remote_to_cloudinary raises: the upload raised, or views.py:82-84
UploadFailed(result) == result.raised \/ result.public_id = <<>>

\* PostCreateSerializer.is_valid(): title and content are required (unless
\* partial) and never blank; image is optional
PostIsValid(data, partial) ==
    /\ partial \/ data.title # <<>>
    /\ partial \/ data.content # <<>>

\* serializer.create / serializer.update: set the validated fields on the
\* instance; slug and id are read_only_fields and image_url was popped
ApplyValidated(inst, data) ==
    [inst EXCEPT !.title = IF data.title # <<>> THEN data.title ELSE @,
                 !.content = IF data.content # <<>> THEN data.content ELSE @,
                 !.image = IF data.image # <<>> THEN data.image ELSE @]

\* the request fields the serializer reads: slug is one of its read_only_fields
\* and never reaches validated_data
SerializerInput(data) ==
    [title |-> data.title, content |-> data.content, image |-> data.image,
     image_url |-> data.image_url]

NewInstance == [id |-> 0, title |-> <<>>, content |-> <<>>, image |-> <<>>,
                slug |-> <<>>]

Row(inst) == [title |-> inst.title, content |-> inst.content,
              image |-> inst.image, slug |-> inst.slug]

\* mutation: the uploaded identifier is never written to the post
NoImageSave(temp_public_id) == FALSE

\* views.py:117 / 154: if temp_public_id
NeedsImageSave(temp_public_id) == temp_public_id # <<>>

WriteResponse(w, status, key) ==
    [op |-> loc[w].op, status |-> status, worker |-> w, key |-> key,
     id |-> loc[w].inst.id, image |-> loc[w].data.image,
     image_url |-> loc[w].data.image_url,
     public_id |-> loc[w].temp_public_id, invoked |-> loc[w].invoked]

Finish(w, response) ==
    /\ resp' = response
    /\ loc' = [loc EXCEPT ![w] = Idle]
    /\ pc' = [pc EXCEPT ![w] = "idle"]

\* views.py:92-102 and 130-141: read the request, look the post up (update),
\* refuse a remote URL when Cloudinary is not available
WriteStart(w, op, slug, data, partial) ==
    /\ pc[w] = "idle"
    /\ LET post == IF op = "update" THEN GetObject(slug) ELSE 0
           start == [op |-> op, data |-> SerializerInput(data), partial |-> partial,
                     inst |-> IF op = "update"
                              THEN [id |-> post] @@ posts[post]
                              ELSE NewInstance,
                     temp_public_id |-> <<>>, invoked |-> FALSE, wrote |-> FALSE]
       IN
       IF op = "update" /\ post = 0
       THEN /\ resp' = [op |-> op, status |-> 404, worker |-> w]
            /\ UNCHANGED <<pc, loc>>
       ELSE IF data.image_url # <<>> /\ ~cloudinaryAvailable
       THEN /\ resp' = [op |-> op, status |-> 400, worker |-> w,
                        key |-> "image_url", id |-> post, image |-> data.image,
                        image_url |-> data.image_url,
                        public_id |-> <<>>, invoked |-> FALSE]
            /\ UNCHANGED <<pc, loc>>
       ELSE /\ loc' = [loc EXCEPT ![w] = start]
            /\ pc' = [pc EXCEPT ![w] =
                   IF data.image_url # <<>> THEN "upload" ELSE "validate"]
            /\ resp' = NoResponse
    /\ UNCHANGED <<storeVars, cloudinaryAvailable, norm, uploads, toggles, sweepVars>>

\* views.py:103-106 and 142-145: self._upload_remote_to_cloudinary(image_url)
WriteUpload(w, result) ==
    /\ pc[w] = "upload"
    /\ uploads' = uploads \cup {loc[w].data.image_url}
    /\ IF UploadFailed(result)
       THEN Finish(w, [WriteResponse(w, 400, "image_url") EXCEPT !.invoked = TRUE])
       ELSE /\ loc' = [loc EXCEPT ![w].temp_public_id = result.public_id,
                                  ![w].invoked = TRUE]
            /\ pc' = [pc EXCEPT ![w] = "validate"]
            /\ UNCHANGED resp
    /\ UNCHANGED <<storeVars, cloudinaryAvailable, norm, toggles, sweepVars>>

\* views.py:112-114 and 150-152: is_valid(raise_exception=True), then the part
\* of serializer.save() before the row is written: the fields are set on the
\* instance and the pre_save receiver runs its slug queries
WriteValidate(w) ==
    /\ pc[w] = "validate"
    /\ IF ~PostIsValid(loc[w].data, loc[w].partial)
       THEN Finish(w, WriteResponse(w, 400, "fields"))
       ELSE /\ loc' = [loc EXCEPT ![w].inst =
                           EnsureSlug(ApplyValidated(loc[w].inst, loc[w].data))]
            /\ pc' = [pc EXCEPT ![w] = "save"]
            /\ UNCHANGED resp
    /\ UNCHANGED <<storeVars, cloudinaryAvailable, norm, uploads, toggles, sweepVars>>

\* the INSERT or UPDATE of serializer.save(), all columns of the instance
WriteSave(w) ==
    /\ pc[w] = "save"
    /\ LET inst == loc[w].inst
           pk == IF inst.id = 0 THEN Len(posts) + 1 ELSE inst.id
       IN
       IF ~SlugUnique(inst.slug, inst.id)
       THEN \* IntegrityError, not caught by the view: a server error response
            /\ Finish(w, WriteResponse(w, 500, ""))
            /\ UNCHANGED posts
       ELSE /\ posts' = IF inst.id = 0 THEN Append(posts, Row(inst))
                        ELSE [posts EXCEPT ![pk] = Row(inst)]
            /\ IF NeedsImageSave(loc[w].temp_public_id)
               THEN /\ loc' = [loc EXCEPT ![w].inst.id = pk, ![w].wrote = TRUE]
                    /\ pc' = [pc EXCEPT ![w] = "setimage"]
                    /\ UNCHANGED resp
               ELSE Finish(w, [WriteResponse(w, IF loc[w].op = "create"
                                                THEN 201 ELSE 200, "")
                               EXCEPT !.id = pk])
    /\ UNCHANGED <<comments, likes, cloudinaryAvailable, norm, uploads, toggles,
                   sweepVars>>

\* views.py:117-124 and 154-159: instance.image = temp_public_id;
\* instance.save(update_fields=["image"]); return the response
WriteSetImage(w) ==
    /\ pc[w] = "setimage"
    /\ posts' = [posts EXCEPT ![loc[w].inst.id].image = loc[w].temp_public_id]
    /\ Finish(w, WriteResponse(w, IF loc[w].op = "create" THEN 201 ELSE 200, ""))
    /\ UNCHANGED <<comments, likes, cloudinaryAvailable, norm, uploads, toggles,
                   sweepVars>>

---------------------------------------------------------------------------
(* Stored image references, the media storage and the local disk *)

HttpScheme == <<"h", "t", "t", "p", ":", "/", "/">>
HttpsScheme == <<"h", "t", "t", "p", "s", ":", "/", "/">>
ResCloudinaryCom == <<"r", "e", "s", ".", "c", "l", "o", "u", "d", "i", "n", "a",
                      "r", "y", ".", "c", "o", "m">>
\* settings.MEDIA_URL
MediaUrl == <<"/", "m", "e", "d", "i", "a", "/">>
MediaPrefix == <<"m", "e", "d", "i", "a", "/">>
FutoMediaPrefix == <<"f", "u", "t", "o", "_", "m", "e", "d", "i", "a", "/">>
\* settings.MEDIA_ROOT, for a BASE_DIR of /app
MediaRoot == <<"/", "a", "p", "p", "/", "m", "e", "d", "i", "a">>

\* s.startswith(('http://', 'https://'))
IsAbsoluteUrl(s) == StartsWith(s, HttpScheme) \/ StartsWith(s, HttpsScheme)

\* the escapes urllib.parse.unquote resolves, among those the references hold
Escapes == <<[hex |-> <<"3", "A">>, char |-> ":"],
             [hex |-> <<"2", "F">>, char |-> "/"],
             [hex |-> <<"2", "5">>, char |-> "%"],
             [hex |-> <<"2", "0">>, char |-> " "]>>

EscapeOf(hex) == {i \in 1..Len(Escapes) : Escapes[i].hex = hex}

RECURSIVE Unquote(_)
\* urllib.parse.unquote(s): one decoding pass
Unquote(s) ==
    IF s = <<>> THEN <<>>
    ELSE IF Head(s) = "%" /\ Len(s) >= 3 /\ EscapeOf(SubSeq(s, 2, 3)) # {}
    THEN <<Escapes[CHOOSE i \in EscapeOf(SubSeq(s, 2, 3)) : TRUE].char>>
             \o Unquote(Drop(s, 3))
    ELSE <<Head(s)>> \o Unquote(Tail(s))

EscapeFor(c) == {i \in 1..Len(Escapes) : Escapes[i].char = c /\ c # "/"}

RECURSIVE Quote(_)
\* urllib.parse.quote(s, safe="/~!*()'"), as django's filepath_to_uri calls it
Quote(s) ==
    IF s = <<>> THEN <<>>
    ELSE IF EscapeFor(Head(s)) # {}
    THEN <<"%">> \o Escapes[CHOOSE i \in EscapeFor(Head(s)) : TRUE].hex
             \o Quote(Tail(s))
    ELSE <<Head(s)>> \o Quote(Tail(s))

\* the CDN address of an asset key under the cloudinary storage
CdnBase == HttpsScheme \o ResCloudinaryCom
               \o <<"/", "c", "/", "i", "m", "a", "g", "e", "/", "u", "p", "l",
                    "o", "a", "d", "/">>

\* What post.image is when a post is loaded: a file of the filesystem storage
\* (settings.py:157), a file of the cloudinary storage (settings.py:149), or
\* the resource of a CloudinaryField (models.py:29), which has a url and no
\* name attribute.
StorageKinds == {"filesystem", "cloudinary", "resource"}

\* getattr(post.image, 'name', '') or ''
ImageName(kind, image) == IF kind = "resource" THEN <<>> ELSE image

\* getattr(post.image, 'url', '') or '', '' when reading it raises: the
\* filesystem storage answers MEDIA_URL + the quoted name; the cloudinary
\* storage and the resource answer a stored absolute URL as it is and a
\* stored asset key by its CDN address; no file, no url
ImageUrl(kind, image) ==
    IF image = <<>> THEN <<>>
    ELSE IF kind = "filesystem"
    THEN MediaUrl \o LStripChars(Quote(image), {"/"})
    ELSE IF IsAbsoluteUrl(image) THEN image
    ELSE CdnBase \o image

\* os.path.join(settings.MEDIA_ROOT, rel)
JoinMediaRoot(rel) ==
    IF StartsWith(rel, <<"/">>) THEN rel ELSE MediaRoot \o <<"/">> \o rel

\* os.path.exists(path)
PathExists(path) == path \in files

\* results of cloudinary.uploader.upload(local_path, ...): an exception, a
\* result without identifiers, a result with public_id and secure_url
SweepPublicId == FutoMediaPrefix \o <<"s">>
SecureUrl == CdnBase \o <<"s">>
SweepUploadResults ==
    {[raised |-> TRUE, public_id |-> <<>>, secure_url |-> <<>>],
     [raised |-> FALSE, public_id |-> <<>>, secure_url |-> <<>>],
     [raised |-> FALSE, public_id |-> SweepPublicId, secure_url |-> SecureUrl]}

---------------------------------------------------------------------------
(* fix_and_migrate_images.Command.handle: the body of the loop *)

\* line 41: the url holds an encoded or media-prefixed absolute URL
LooksEncoded(url) ==
    \/ Contains(url, <<"h", "t", "t", "p", "s", "%", "3", "A">>)
    \/ Contains(url, <<"h", "t", "t", "p", "%", "2", "5", "3", "A">>)
    \/ Contains(url, MediaUrl \o <<"h", "t", "t", "p", "s", ":">>)
    \/ Contains(url, MediaUrl \o <<"h", "t", "t", "p", ":">>)

\* lines 42-47: unquote, drop leading slashes and one media/ prefix
DecodedUrl(url) ==
    LET d == LStripChars(Unquote(url), {"/"})
    IN IF StartsWith(d, MediaPrefix) THEN Drop(d, Len(MediaPrefix)) ELSE d

\* s[s.find('/media/') + len('/media/'):]
AfterMedia(s) == Drop(s, Find(s, MediaUrl) - 1 + Len(MediaUrl))

\* lines 93-109: the local path a stored name stands for
LocalPathOfName(name) ==
    IF IsAbsoluteUrl(name) /\ Find(name, MediaUrl) # 0
    THEN JoinMediaRoot(AfterMedia(name))
    ELSE JoinMediaRoot(name)

\* What one pass of the loop body does for a post: whether it saved the post
\* and with which image, the counter it increments ("none": no counter),
\* whether a step of it failed, and whether the upload collaborator was
\* invoked.
FixOutcome(name, url, upload, saveOk) ==
    LET Keep(counter, failed, uploaded) ==
            [saved |-> FALSE, image |-> <<>>, counter |-> counter,
             failed |-> failed, uploaded |-> uploaded]
        \* post.image = value; post.save(update_fields=['image']); counter += 1
        Store(value, counter, uploaded) ==
            IF saveOk
            THEN [saved |-> TRUE, image |-> value, counter |-> counter,
                  failed |-> FALSE, uploaded |-> uploaded]
            ELSE Keep("errors", TRUE, uploaded)
        \* lines 65-83 and 111-133
        UploadFrom(path) ==
            IF ~PathExists(path) THEN Keep("skipped", FALSE, FALSE)
            ELSE IF upload.raised THEN Keep("errors", TRUE, TRUE)
            ELSE IF upload.secure_url # <<>>
            THEN Store(upload.secure_url, "migrated", TRUE)
            ELSE Keep("errors", TRUE, TRUE)
    IN
    IF IsAbsoluteUrl(url) /\ Contains(url, ResCloudinaryCom)
    THEN IF name # url THEN Store(url, "fixed", FALSE)
         ELSE Keep("none", FALSE, FALSE)
    ELSE IF LooksEncoded(url) /\ IsAbsoluteUrl(DecodedUrl(url))
    THEN Store(DecodedUrl(url), "migrated", FALSE)
    ELSE IF IsAbsoluteUrl(url)
    THEN IF Find(url, MediaUrl) # 0
         THEN UploadFrom(JoinMediaRoot(AfterMedia(url)))
         ELSE Keep("skipped", FALSE, FALSE)
    ELSE IF name # <<>>
    THEN IF IsAbsoluteUrl(name) /\ Contains(name, ResCloudinaryCom)
         THEN Store(name, "fixed", FALSE)
         ELSE UploadFrom(LocalPathOfName(name))
    ELSE Keep("skipped", FALSE, FALSE)

\* mutation: an exception of the loop body ends the loop
NextIndexAbortOnFailure(i, outcome) ==
    IF outcome.failed THEN Len(posts) + 1 ELSE i + 1

\* the try/except of the loop body and its continue statements: the loop
\* goes on with the next post whatever the body did
NextIndex(i, outcome) == i + 1

Bump(c, counter) ==
    IF counter = "none" THEN c ELSE [c EXCEPT ![counter] = @ + 1]

SweepRunning == idx \in 1..Len(posts)
SweepFinished == run > 0 /\ idx = Len(posts) + 1

FixStep(upload, saveOk) ==
    /\ cmd = "fix_and_migrate_images"
    /\ SweepRunning
    /\ LET name == ImageName(storage, posts[idx].image)
           url == ImageUrl(storage, posts[idx].image)
           outcome == FixOutcome(name, url, upload, saveOk)
       IN /\ posts' = IF outcome.saved
                       THEN [posts EXCEPT ![idx].image = outcome.image]
                       ELSE posts
          /\ counters' = Bump(counters, outcome.counter)
          /\ sweepLog' = Append(sweepLog, [counter |-> outcome.counter,
                                           failed |-> outcome.failed,
                                           uploaded |-> outcome.uploaded,
                                           saved |-> outcome.saved,
                                           before |-> posts[idx].image])
          /\ idx' = NextIndex(idx, outcome)
    /\ UNCHANGED <<comments, likes, cloudinaryAvailable, norm, uploads, workerVars,
                   toggles, cmd, storage, cloudName, files, run, firstRun>>

---------------------------------------------------------------------------
(* migrate_media_to_cloudinary.Command.handle *)

\* line 13: CLOUDINARY_STORAGE or CLOUDINARY_CLOUD_NAME is set
CloudinaryConfigured == storage = "cloudinary" \/ cloudName

\* lines 22-58: the body of the loop; this command keeps no counters
MigrateOutcome(name, upload, saveOk) ==
    LET Keep(failed, uploaded) ==
            [saved |-> FALSE, image |-> <<>>, counter |-> "none",
             failed |-> failed, uploaded |-> uploaded]
        path == IF StartsWith(name, <<"/">>) THEN name ELSE JoinMediaRoot(name)
    IN
    IF name = <<>> THEN Keep(FALSE, FALSE)
    ELSE IF \/ IsAbsoluteUrl(name)
            \/ StartsWith(name, FutoMediaPrefix)
            \/ Contains(name, ResCloudinaryCom)
    THEN Keep(FALSE, FALSE)
    ELSE IF ~PathExists(path) THEN Keep(FALSE, FALSE)
    ELSE IF upload.raised \/ upload.public_id = <<>> THEN Keep(TRUE, TRUE)
    ELSE IF ~saveOk THEN Keep(TRUE, TRUE)
    ELSE [saved |-> TRUE, image |-> upload.public_id, counter |-> "none",
          failed |-> FALSE, uploaded |-> TRUE]

MigrateStep(upload, saveOk) ==
    /\ cmd = "migrate_media_to_cloudinary"
    /\ SweepRunning
    /\ LET outcome == MigrateOutcome(ImageName(storage, posts[idx].image),
                                     upload, saveOk)
       IN /\ posts' = IF outcome.saved
                       THEN [posts EXCEPT ![idx].image = outcome.image]
                       ELSE posts
          /\ sweepLog' = Append(sweepLog, [counter |-> outcome.counter,
                                           failed |-> outcome.failed,
                                           uploaded |-> outcome.uploaded,
                                           saved |-> outcome.saved,
                                           before |-> posts[idx].image])
          /\ idx' = NextIndex(idx, outcome)
    /\ UNCHANGED <<comments, likes, cloudinaryAvailable, norm, uploads, workerVars,
                   toggles, cmd, storage, cloudName, files, run, counters,
                   firstRun>>

ZeroCounters == [migrated |-> 0, fixed |-> 0, skipped |-> 0, errors |-> 0]

StoredImages == [i \in PostIds |-> posts[i].image]

\* the command is started, for the first time or again after it has finished
SweepStart ==
    /\ cmd # "none"
    /\ run = 0 \/ SweepFinished
    /\ run < MaxRuns
    /\ run' = run + 1
    /\ idx' = IF cmd = "migrate_media_to_cloudinary" /\ ~CloudinaryConfigured
              THEN Len(posts) + 1
              ELSE 1
    /\ counters' = ZeroCounters
    /\ sweepLog' = <<>>
    /\ firstRun' = IF run = 1
                   THEN [images |-> StoredImages, errors |-> counters.errors]
                   ELSE firstRun
    /\ UNCHANGED <<storeVars, cloudinaryAvailable, norm, uploads, workerVars, toggles,
                   cmd, storage, cloudName, files>>

---------------------------------------------------------------------------
(* serializers._normalize_candidate *)

Http == <<"h", "t", "t", "p">>
HttpOneSlash == <<"h", "t", "t", "p", ":", "/">>
HttpsOneSlash == <<"h", "t", "t", "p", "s", ":", "/">>
ImageUpload == <<"/", "i", "m", "a", "g", "e", "/", "u", "p", "l", "o", "a", "d">>

\* range(3) of the decoding loop
DecodePasses == 3

\* s.strip()
Strip(s) == LStripChars(RStripChars(s, SpaceChars), SpaceChars)

\* s.lower()
Lower(s) == [i \in DOMAIN s |-> LowerChar(s[i])]

\* s[s.rfind("http"):]
FromLastHttp(s) == Drop(s, RFind(s, Http) - 1)

\* lines 23-25: several "http" in the value, keep from the last one on
KeepLastHttp(v) ==
    IF Cardinality(Occurrences(v, Http)) > 1 THEN FromLastHttp(v) ELSE v

\* line 28-38: does the loop make another pass that changes v
DecodesAgain(v, n) == n > 0 /\ Contains(v, <<"%">>) /\ Unquote(v) # v

RECURSIVE DecodeLoop(_, _)
\* lines 28-38: unquote up to n times, until a pass changes nothing
DecodeLoop(v, n) ==
    IF DecodesAgain(v, n) THEN DecodeLoop(Unquote(v), n - 1) ELSE v

RECURSIVE DecodeCount(_, _)
\* the number of passes of the loop that changed v
DecodeCount(v, n) ==
    IF DecodesAgain(v, n) THEN 1 + DecodeCount(Unquote(v), n - 1) ELSE 0

\* lines 41-45: v.lstrip().lstrip("/"), then one leading media/ removed
TrimLeading(v) ==
    LET t == LStripChars(LStripChars(v, SpaceChars), {"/"})
    IN IF StartsWith(t, MediaPrefix) THEN Drop(t, Len(MediaPrefix)) ELSE t

\* lines 48-51: http:/x -> http://x and https:/x -> https://x
FixSingleSlash(v) ==
    LET a == IF StartsWith(v, HttpOneSlash) /\ ~StartsWith(v, HttpScheme)
             THEN HttpScheme \o Drop(v, Len(HttpOneSlash)) ELSE v
    IN IF StartsWith(a, HttpsOneSlash) /\ ~StartsWith(a, HttpsScheme)
       THEN HttpsScheme \o Drop(a, Len(HttpsOneSlash)) ELSE a

\* lines 54-57: no scheme at the start but "http" later
TakeLastHttp(v) ==
    IF ~IsAbsoluteUrl(v) /\ Contains(v, Http) THEN FromLastHttp(v) ELSE v

\* the position of the first character of s that is in chars, Len(s) + 1 if none
FirstOf(s, chars) ==
    LET at == {i \in 1..Len(s) : s[i] \in chars}
    IN IF at = {} THEN Len(s) + 1 ELSE CHOOSE i \in at : \A j \in at : i <= j

\* urllib.parse.urlsplit(v) for a v that starts with http:// or https://:
\* the netloc ends at the first of / ? #, an unmatched square bracket in it
\* raises ValueError; the fragment starts at the first #, the query at the
\* first ? before it
UrlSplit(v) ==
    LET scheme == IF StartsWith(v, HttpsScheme) THEN <<"h", "t", "t", "p", "s">>
                  ELSE Http
        rest == Drop(v, Len(scheme) + 3)
        stop == FirstOf(rest, {"/", "?", "#"})
        netloc == Take(rest, stop - 1)
        url == Drop(rest, stop - 1)
        hash == FirstOf(url, {"#"})
        beforeHash == Take(url, hash - 1)
        mark == FirstOf(beforeHash, {"?"})
    IN [raised |-> (Contains(netloc, <<"[">>) /\ ~Contains(netloc, <<"]">>))
                      \/ (Contains(netloc, <<"]">>) /\ ~Contains(netloc, <<"[">>)),
        scheme |-> scheme,
        netloc |-> netloc,
        path |-> Take(beforeHash, mark - 1),
        query |-> Drop(beforeHash, mark),
        fragment |-> Drop(url, hash)]

\* urllib.parse.urlunsplit((scheme, netloc, path, query, fragment)) for the
\* schemes http and https
UrlUnsplit(scheme, netloc, path, query, fragment) ==
    LET rooted == IF path # <<>> /\ Head(path) # "/" THEN <<"/">> \o path
                  ELSE path
        url == IF netloc # <<>> \/ ~StartsWith(path, <<"/", "/">>)
               THEN <<"/", "/">> \o netloc \o rooted ELSE path
    IN scheme \o <<":">> \o url
           \o (IF query # <<>> THEN <<"?">> \o query ELSE <<>>)
           \o (IF fragment # <<>> THEN <<"#">> \o fragment ELSE <<>>)

\* line 72: "res.cloudinary.com" in netloc.lower()
IsCloudinaryHost(netloc) == Contains(Lower(netloc), ResCloudinaryCom)

\* lines 79-91: put /image/upload after the first component of the path
InsertImageUpload(path) ==
    LET slash == Find(path, <<"/">>)
        after == Drop(path, slash)
        next == Find(after, <<"/">>)
        cloud_name == IF next = 0 THEN after ELSE Take(after, next - 1)
        rest == IF next = 0 THEN <<>> ELSE Drop(after, next)
    IN IF slash = 0 \/ cloud_name = <<>> THEN path
       ELSE IF rest # <<>>
       THEN <<"/">> \o cloud_name \o ImageUpload \o <<"/">> \o rest
       ELSE <<"/">> \o cloud_name \o ImageUpload

\* lines 74-91: the path of a URL whose host passed the test of line 72
RepairCloudinaryPath(path) ==
    LET last == IF Contains(path, Http) THEN FromLastHttp(path) ELSE path
    IN IF Contains(last, ImageUpload) THEN last ELSE InsertImageUpload(last)

\* results of a call: a URL, None, or an exception leaving the function
UrlResult(url) == [kind |-> "url", url |-> url]
NoneResult == [kind |-> "none", url |-> <<>>]
RaisesResult == [kind |-> "raises", url |-> <<>>]

\* lines 20-57: the value the function tries to parse
Cleaned(candidate) ==
    TakeLastHttp(FixSingleSlash(TrimLeading(
        DecodeLoop(KeepLastHttp(Strip(candidate)), DecodePasses))))

\* lines 60-99
Rebuild(v) ==
    LET parts == UrlSplit(v)
        scheme == IF parts.scheme = Http THEN <<"h", "t", "t", "p", "s">>
                  ELSE parts.scheme
        path == IF IsCloudinaryHost(parts.netloc)
                THEN RepairCloudinaryPath(parts.path) ELSE parts.path
    IN IF parts.raised THEN RaisesResult
       ELSE UrlResult(UrlUnsplit(scheme, parts.netloc, path, parts.query,
                                 parts.fragment))

\* _normalize_candidate(candidate)
NormalizeCandidate(candidate) ==
    IF candidate = <<>> THEN NoneResult
    ELSE IF IsAbsoluteUrl(Cleaned(candidate)) THEN Rebuild(Cleaned(candidate))
    ELSE NoneResult

\* no call of the function is being followed
NoCandidate == [phase |-> "none"]

\* a result the function has not been asked for yet
NoResult == [kind |-> "pending", url |-> <<>>]

\* _normalize_candidate(candidate) is called
NormalizeFirst ==
    /\ norm.phase = "given"
    /\ norm' = [norm EXCEPT
                   !.phase = "first",
                   !.first = NormalizeCandidate(norm.candidate),
                   !.passes = DecodeCount(KeepLastHttp(Strip(norm.candidate)),
                                          DecodePasses)]
    /\ UNCHANGED <<storeVars, cloudinaryAvailable, uploads, workerVars, toggles,
                   sweepVars>>

\* the function is called with the URL it returned
NormalizeAgain ==
    /\ norm.phase = "first"
    /\ norm.first.kind = "url"
    /\ norm' = [norm EXCEPT !.phase = "second",
                            !.second = NormalizeCandidate(norm.first.url)]
    /\ UNCHANGED <<storeVars, cloudinaryAvailable, uploads, workerVars, toggles,
                   sweepVars>>

---------------------------------------------------------------------------
(* Initial states *)

InitWorkers ==
    /\ pc = [w \in Workers |-> "idle"]
    /\ loc = [w \in Workers |-> Idle]
    /\ resp = NoResponse

\* no management command is running
InitNoSweep ==
    /\ cmd = "none"
    /\ storage = "filesystem"
    /\ cloudName = FALSE
    /\ files = {}
    /\ idx = 0
    /\ run = 0
    /\ counters = ZeroCounters
    /\ sweepLog = <<>>
    /\ firstRun = [images |-> <<>>, errors |-> 0]

\* one post, as the write path stores it
OnePost ==
    <<[title |-> <<"A", " ">>, content |-> <<"c">>, image |-> <<>>,
       slug |-> <<"a">>]>>

\* the visitor ids EffectiveVisitor yields for post 1
LikeVisitors == {<<"v">>, <<"9">>, <<"1">>}

InitLike ==
    /\ norm = NoCandidate
    /\ posts = OnePost
    /\ comments = <<>>
    /\ likes = [k \in {1} \X LikeVisitors |-> 0]
    /\ cloudinaryAvailable = TRUE
    /\ uploads = {}
    /\ toggles = [k \in {1} \X LikeVisitors |-> 0]
    /\ InitWorkers
    /\ InitNoSweep

\* two posts with equal titles, as the write path stores them (slugs a and a-1)
TwoPosts ==
    <<[title |-> <<"A", " ">>, content |-> <<"c">>, image |-> <<>>,
       slug |-> <<"a">>],
      [title |-> <<"A", " ">>, content |-> <<"c">>, image |-> <<>>,
       slug |-> <<"a", "-", "1">>]>>

InitComment ==
    /\ norm = NoCandidate
    /\ posts = TwoPosts
    /\ comments = <<>>
    /\ likes = [k \in {1} \X LikeVisitors |-> 0]
    /\ cloudinaryAvailable = TRUE
    /\ uploads = {}
    /\ toggles = [k \in {1} \X LikeVisitors |-> 0]
    /\ InitWorkers
    /\ InitNoSweep

\* the store after one create request whose title slugifies to the empty string
EmptySlugPost ==
    <<[title |-> <<"!">>, content |-> <<"c">>, image |-> <<>>, slug |-> <<>>]>>

InitWrite ==
    /\ norm = NoCandidate
    /\ posts = EmptySlugPost
    /\ comments = <<>>
    /\ likes = [k \in {1} \X LikeVisitors |-> 0]
    /\ cloudinaryAvailable \in BOOLEAN
    /\ uploads = {}
    /\ toggles = [k \in {1} \X LikeVisitors |-> 0]
    /\ InitWorkers
    /\ InitNoSweep

\* stored image references of the posts a management command finds: none, a
\* local file that exists, one that is missing, a canonical CDN URL, the URL
\* of a local media file, a URL of another host, that URL behind a slash
StoredReferences ==
    {<<>>, <<"a">>, <<"b">>, CdnBase \o <<"x">>,
     HttpScheme \o <<"h">> \o MediaUrl \o <<"a">>,
     HttpsScheme \o <<"e", "/", "y">>,
     <<"/">> \o HttpsScheme \o <<"e", "/", "y">>}

\* the slug the write path gives the i-th post titled "A "
CorpusSlug(i) == IF i = 1 THEN <<"a">> ELSE <<"a", "-">> \o IntToStr(i - 1)

Corpora ==
    UNION {[1..n -> StoredReferences] : n \in 1..MaxSweepPosts}

InitSweep ==
    /\ norm = NoCandidate
    /\ \E images \in Corpora :
           posts = [i \in DOMAIN images |->
                       [title |-> <<"A", " ">>, content |-> <<"c">>,
                        image |-> images[i], slug |-> CorpusSlug(i)]]
    /\ comments = <<>>
    /\ likes = [k \in {1} \X LikeVisitors |-> 0]
    /\ cloudinaryAvailable = TRUE
    /\ uploads = {}
    /\ toggles = [k \in {1} \X LikeVisitors |-> 0]
    /\ InitWorkers
    /\ cmd \in {"fix_and_migrate_images", "migrate_media_to_cloudinary"}
    /\ storage \in StorageKinds
    \* only migrate_media_to_cloudinary reads CLOUDINARY_CLOUD_NAME (line 13)
    /\ cloudName \in IF cmd = "migrate_media_to_cloudinary" THEN BOOLEAN ELSE {FALSE}
    /\ files = {MediaRoot \o <<"/">>, MediaRoot \o <<"/", "a">>}
    /\ idx = 0
    /\ run = 0
    /\ counters = ZeroCounters
    /\ sweepLog = <<>>
    /\ firstRun = [images |-> <<>>, errors |-> 0]

---------------------------------------------------------------------------
(* Like requests, any interleaving of the workers' steps *)

LikeStartAny ==
    /\ \E w \in Workers, slug \in LikeSlugs, v \in VisitorIds, a \in RemoteAddrs :
           LikeStart(w, slug, v, a)
    /\ UNCHANGED toggles

LikeExistsAny == (\E w \in Workers : LikeExists(w)) /\ UNCHANGED toggles

LikeWriteAny == (\E w \in Workers : LikeWrite(w)) /\ UNCHANGED toggles

LikeRespondAny == (\E w \in Workers : LikeRespond(w)) /\ UNCHANGED toggles

LikeNext == LikeStartAny \/ LikeExistsAny \/ LikeWriteAny \/ LikeRespondAny

LikeSpec == InitLike /\ [][LikeNext]_vars

(* Like requests handled one at a time: a request starts only when no other
   request is in flight.  toggles counts the requests completed per key. *)

LikeStartSeq ==
    /\ \E w \in Workers, slug \in LikeSlugs, v \in VisitorIds, a \in RemoteAddrs :
           /\ OthersIdle(w)
           /\ GetObject(slug) # 0 =>
                  toggles[<<GetObject(slug),
                            EffectiveVisitor(v, a, GetObject(slug))>>] < MaxToggles
           /\ LikeStart(w, slug, v, a)
    /\ UNCHANGED toggles

LikeRespondSeq ==
    \E w \in Workers :
        /\ LikeRespond(w)
        /\ toggles' = [toggles EXCEPT ![<<loc[w].post, loc[w].visitor>>] = @ + 1]

LikeSeqNext == LikeStartSeq \/ LikeExistsAny \/ LikeWriteAny \/ LikeRespondSeq

LikeSeqSpec == InitLike /\ [][LikeSeqNext]_vars

---------------------------------------------------------------------------
(* Claims about the like toggle *)

AllIdle == \A w \in Workers : pc[w] = "idle"

\* C1: with like requests handled one after another, the n-th request for a
\* (post, visitor) leaves the Like row present iff n is odd; it answers 200
\* with liked=true and likes_count one higher than before when n is odd, and
\* liked=false with likes_count one lower when n is even.
C1_LikeToggleAlternates ==
    /\ AllIdle =>
           \A k \in DOMAIN likes :
               likes[k] = (IF toggles[k] % 2 = 1 THEN 1 ELSE 0)
    /\ (resp.op = "like" /\ resp.status # 404) =>
           /\ resp.status = 200
           /\ resp.liked = (resp.n % 2 = 1)
           /\ resp.likes_count = resp.before + (IF resp.liked THEN 1 ELSE -1)

\* the third request of a visitor has been answered, another visitor's like stored
C1_Witness ==
    /\ resp.op = "like" /\ resp.status = 200
    /\ resp.n = 3 /\ resp.liked /\ resp.likes_count = 2

\* C2: there is at most one Like row per (post, visitor_id), whatever the
\* interleaving of the existence test and the create/delete of like requests.
C2_AtMostOneLikePerVisitor == \A k \in DOMAIN likes : likes[k] <= 1

\* two requests both found no row; one inserted it, the other's insert was refused
C2_Witness ==
    /\ resp.op = "like" /\ resp.status = 500
    /\ likes[<<resp.post, resp.visitor>>] = 1

---------------------------------------------------------------------------
(* Comment requests *)

\* slugs of comment requests: the stored posts', and one that no post has
CommentSlugs == {<<"a">>, <<"a", "-", "1">>, <<"z">>}

\* parent ids of comment requests: none, every id the table can hold, one beyond
CommentParents == 0..(MaxComments + 1)

CommentPostAny ==
    \E w \in Workers, slug \in CommentSlugs, name \in CommentTexts,
       content \in CommentTexts, parent \in CommentParents :
        CommentPost(w, slug, name, content, parent)

CommentNext == CommentPostAny

CommentSpec == InitComment /\ [][CommentNext]_vars

\* every stored reply belongs to the post of its parent
ThreadingInvariant ==
    \A c \in CommentIds :
        comments[c].parent # 0 =>
            /\ comments[c].parent \in CommentIds
            /\ comments[comments[c].parent].post = comments[c].post

\* a step answering a request whose parent is a stored comment of another post
CrossPostRequest ==
    /\ resp'.op = "comment" /\ resp'.status # 404
    /\ resp'.parent \in CommentIds
    /\ comments[resp'.parent].post # resp'.post

\* C3: every stored comment with a parent has a parent of the same post, and a
\* POST whose parent is a comment of a different post is answered 400 and
\* leaves the stored comments unchanged.
C3_CommentThreading ==
    /\ []ThreadingInvariant
    /\ [][CrossPostRequest => (resp'.status = 400 /\ comments' = comments)]_vars

\* a reply is stored and a cross-post reply to it has been refused
C3_Witness ==
    /\ resp.op = "comment" /\ resp.status = 400 /\ resp.key = "parent"
    /\ comments[resp.parent].post # resp.post
    /\ \E c \in CommentIds : comments[c].parent # 0

---------------------------------------------------------------------------
(* Create and update requests handled one at a time *)

\* slugs of update requests: the router (futo_media/urls.py) matches a slug of
\* one or more characters, so those of the stored posts that are not empty,
\* and one that no post has
UpdateSlugs == ({posts[i].slug : i \in PostIds} \ {<<>>}) \cup {<<"z">>}

\* the worker that handles the requests when they are handled one at a time
SeqWorkers == {1}

\* create requests in flight
Creating == {w \in Workers : pc[w] # "idle" /\ loc[w].op = "create"}

CreateStartSeq ==
    \E w \in SeqWorkers, data \in RequestData :
        /\ OthersIdle(w)
        /\ Len(posts) + Cardinality(Creating) < Len(EmptySlugPost) + MaxPosts
        /\ WriteStart(w, "create", <<>>, data, FALSE)

UpdateStartSeq ==
    \E w \in SeqWorkers, slug \in UpdateSlugs, data \in RequestData,
       partial \in BOOLEAN :
        /\ OthersIdle(w)
        /\ WriteStart(w, "update", slug, data, partial)

WriteUploadAny == \E w \in Workers, result \in UploadResults : WriteUpload(w, result)

WriteValidateAny == \E w \in Workers : WriteValidate(w)

WriteSaveAny == \E w \in Workers : WriteSave(w)

WriteSetImageAny == \E w \in Workers : WriteSetImage(w)

WriteNext ==
    \/ CreateStartSeq
    \/ UpdateStartSeq
    \/ WriteUploadAny
    \/ WriteValidateAny
    \/ WriteSaveAny
    \/ WriteSetImageAny

WriteSpec == InitWrite /\ [][WriteNext]_vars

---------------------------------------------------------------------------
(* Claims about the write path *)

WriteOps == {"create", "update"}

\* a step in which a create or update request is answered
Answered == resp' # resp /\ resp'.op \in WriteOps /\ resp'.status # 404

\* the answered request had written to the store in an earlier step
WroteBefore == pc[resp'.worker] # "idle" /\ loc[resp'.worker].wrote

\* C4: a create or update carrying image_url whose upload is unavailable,
\* raises or returns no public_id is answered 400 keyed on image_url, and
\* neither that step nor an earlier step of the request changes the store.
C4_UploadFailureRejectsWrite ==
    [][(Answered /\ resp'.image_url # <<>> /\ resp'.public_id = <<>>) =>
           /\ resp'.status = 400
           /\ resp'.key = "image_url"
           /\ posts' = posts
           /\ ~WroteBefore]_vars

\* an update of a stored post was refused after the collaborator was invoked
C4_Witness ==
    /\ resp.op = "update" /\ resp.status = 400 /\ resp.key = "image_url"
    /\ resp.invoked /\ resp.id \in PostIds
    /\ cloudinaryAvailable

C6_ValidationFailureNoSideEffects ==
    [][(Answered /\ resp'.status = 400 /\ resp'.key = "fields") =>
           /\ posts' = posts
           /\ ~WroteBefore
           /\ ~resp'.invoked]_vars

\* C7: the slug of a stored post never changes, whatever create, full-update
\* and partial-update requests follow its creation, and no stored slug is the
\* slug a client supplied.
C7_SlugAssignedOnce ==
    /\ [][\A i \in PostIds : posts'[i].slug = posts[i].slug]_vars
    /\ [](\A i \in PostIds : posts[i].slug \notin ClientSlugs \ {<<>>})

\* a post created with a title whose slug is empty (stored as -1 beside the
\* post holding the empty slug) was given another title and kept its slug
C7_Witness ==
    /\ resp.op = "update" /\ resp.status = 200
    /\ posts[resp.id].title = <<"A", " ">>
    /\ posts[resp.id].slug = <<"-", "1">>

---------------------------------------------------------------------------
(* The management commands *)

FixStepAny ==
    \E upload \in SweepUploadResults, saveOk \in BOOLEAN : FixStep(upload, saveOk)

MigrateStepAny ==
    \E upload \in SweepUploadResults, saveOk \in BOOLEAN : MigrateStep(upload, saveOk)

SweepNext == SweepStart \/ FixStepAny \/ MigrateStepAny

SweepSpec == InitSweep /\ [][SweepNext]_vars

Fixing == cmd = "fix_and_migrate_images"

\* C8: when fix_and_migrate_images finishes, every post has incremented
\* exactly one counter: migrated + fixed + skipped + errors is the number of
\* posts.
C8_SweepTotals ==
    (Fixing /\ SweepFinished) =>
        /\ \A i \in 1..Len(sweepLog) : sweepLog[i].counter # "none"
        /\ counters.migrated + counters.fixed + counters.skipped
               + counters.errors = Len(posts)

\* C9: a second run of fix_and_migrate_images after a first run without
\* errors leaves every stored image unchanged and ends with migrated = 0 and
\* fixed = 0.
C9_SweepIdempotent ==
    (Fixing /\ SweepFinished /\ run = 2 /\ firstRun.errors = 0) =>
        /\ StoredImages = firstRun.images
        /\ counters.migrated = 0
        /\ counters.fixed = 0

FailedEntries == {i \in 1..Len(sweepLog) : sweepLog[i].failed}

\* the command refused to run: no Cloudinary settings
SweepAborted == cmd = "migrate_media_to_cloudinary" /\ ~CloudinaryConfigured

SweepIsolatesFailures ==
    /\ Fixing =>
           /\ \A i \in FailedEntries : sweepLog[i].counter = "errors"
           /\ counters.errors = Cardinality(FailedEntries)
    /\ (run > 0 /\ ~SweepAborted) => Len(sweepLog) = idx - 1

---------------------------------------------------------------------------
(* Calls of _normalize_candidate *)

RECURSIVE QuoteTimes(_, _)
\* s percent-encoded n times
QuoteTimes(s, n) == IF n = 0 THEN s ELSE QuoteTimes(Quote(s), n - 1)

\* asset keys: plain, holding "http", holding a space encoded 0.. times
AssetKeys ==
    {<<"x">>, Http} \cup {QuoteTimes(<<"a", " ", "b">>, j) : j \in 0..MaxEncodings}

CloudDir == <<"/", "c", "/">>
UploadDir == <<"/", "c">> \o ImageUpload \o <<"/">>

CandidatePaths ==
    {<<>>, <<"/">>} \cup {dir \o key : dir \in {CloudDir, UploadDir}, key \in AssetKeys}

\* the canonical host, another host, a host whose name holds the canonical
\* one, and a netloc that cannot be parsed
OtherHost == <<"e">>
LookalikeHost == ResCloudinaryCom \o <<".", "e">>
BadNetloc == <<"[">>
CandidateHosts == {ResCloudinaryCom, OtherHost, LookalikeHost, BadNetloc}

\* what a candidate is made of: an absolute URL, or a string without scheme
CandidateParts ==
    [scheme : {HttpScheme, HttpsScheme}, host : CandidateHosts,
     path : CandidatePaths]
    \cup [scheme : {<<>>}, host : {<<>>},
          path : {<<>>, <<" ">>, <<"a">>, HttpsOneSlash \o <<"e", "/", "x">>}]

\* what stored values carry in front of the URL: nothing, the media prefix,
\* a blank, the URL of a local media directory
CandidatePrefixes ==
    {<<>>, MediaUrl, <<" ">>, HttpScheme \o <<"l">> \o MediaUrl}

PartsUrl(parts) == parts.scheme \o parts.host \o parts.path

InitNorm ==
    /\ \E parts \in CandidateParts, n \in 0..MaxEncodings,
          prefix \in CandidatePrefixes :
           norm = [phase |-> "given", parts |-> parts, encodings |-> n,
                   prefix |-> prefix,
                   candidate |-> prefix \o QuoteTimes(PartsUrl(parts), n),
                   first |-> NoResult, second |-> NoResult, passes |-> 0]
    /\ posts = OnePost
    /\ comments = <<>>
    /\ likes = [k \in {1} \X LikeVisitors |-> 0]
    /\ cloudinaryAvailable = TRUE
    /\ uploads = {}
    /\ toggles = [k \in {1} \X LikeVisitors |-> 0]
    /\ InitWorkers
    /\ InitNoSweep

NormNext == NormalizeFirst \/ NormalizeAgain

NormSpec == InitNorm /\ [][NormNext]_vars

\* the function has returned, or raised, for the candidate
Normalized == norm.phase \in {"first", "second"}

\* the candidate is an absolute URL as it is: no prefix, not encoded
PlainUrl ==
    /\ norm.prefix = <<>>
    /\ norm.encodings = 0
    /\ norm.parts.scheme # <<>>

\* C11: when the function returns a URL u for a candidate, it returns u for u.
C11_NormalizerIdempotent ==
    norm.phase = "second" => norm.second = norm.first

\* C12: the function returns a URL or None for every candidate, never raises,
\* and returns None for the empty string and for a string without "http".
C12_NormalizerNeverRaises ==
    Normalized =>
        /\ norm.first.kind \in {"url", "none"}
        /\ (norm.candidate = <<>> \/ ~Contains(norm.candidate, Http)) =>
               norm.first.kind = "none"

\* C13: a canonical URL (canonical host, path with /image/upload) is returned
\* unchanged when its scheme is https and with only the scheme changed to
\* https when it is http, whatever its asset key.
C13_CanonicalUrlUnchanged ==
    (Normalized /\ PlainUrl /\ norm.parts.host = ResCloudinaryCom
         /\ StartsWith(norm.parts.path, UploadDir)) =>
        norm.first = UrlResult(HttpsScheme \o norm.parts.host \o norm.parts.path)

\* the path the claim gives a URL: /image/upload put after the first segment
\* when the host is the canonical one and the path lacks it, else the path
ClaimedPath(host, path) ==
    IF host = ResCloudinaryCom /\ ~Contains(path, ImageUpload)
    THEN InsertImageUpload(path) ELSE path

\* C14: the path repair is applied exactly when the host is the canonical
\* host and the path lacks /image/upload; for any other host and for a path
\* holding /image/upload the path is returned unchanged.  Stated for URLs
\* that parse, whose path has a first segment and neither "%" nor "http".
C14_PathRepairOnlyCanonicalHost ==
    (Normalized /\ PlainUrl /\ norm.parts.host # BadNetloc
         /\ StartsWith(norm.parts.path, CloudDir)
         /\ ~Contains(norm.parts.path, <<"%">>)
         /\ ~Contains(norm.parts.path, Http)) =>
        norm.first = UrlResult(HttpsScheme \o norm.parts.host
                                   \o ClaimedPath(norm.parts.host, norm.parts.path))

\* C15: the decoding loop makes at most 3 passes, and an absolute URL that
\* was percent-encoded once, twice or three times is normalized to that URL
\* with the scheme https.  Stated for URLs that parse, need no path repair
\* and hold no "http" in the path.
C15_DecodingBoundedAndSufficient ==
    Normalized =>
        /\ norm.passes <= DecodePasses
        /\ (/\ norm.prefix = <<>>
            /\ norm.encodings \in 1..DecodePasses
            /\ norm.parts.scheme # <<>>
            /\ norm.parts.host \in {ResCloudinaryCom, OtherHost}
            /\ StartsWith(norm.parts.path, UploadDir)
            /\ ~Contains(norm.parts.path, Http)) =>
               norm.first = UrlResult(HttpsScheme \o norm.parts.host
                                          \o norm.parts.path)

---------------------------------------------------------------------------
(* Claims about what fix_and_migrate_images counts and stores *)

\* C16: a post is counted as migrated only if the upload collaborator was
\* invoked for it and the result was stored, and a post whose reference is
\* rewritten without an upload is counted as fixed.
C16_MigratedMeansUploaded ==
    Fixing =>
        \A i \in 1..Len(sweepLog) :
            /\ sweepLog[i].counter = "migrated" =>
                   sweepLog[i].uploaded /\ sweepLog[i].saved
            /\ (sweepLog[i].saved /\ ~sweepLog[i].uploaded) =>
                   sweepLog[i].counter = "fixed"

\* an absolute URL of the canonical remote host
OnCanonicalHost(s) ==
    \/ StartsWith(s, HttpsScheme \o ResCloudinaryCom \o <<"/">>)
    \/ StartsWith(s, HttpScheme \o ResCloudinaryCom \o <<"/">>)

\* C17: a post whose stored reference differs from the one it had before the
\* pass of fix_and_migrate_images holds an absolute URL of the canonical
\* host, and a post counted as skipped or errors keeps its reference.
C17_SweepStoresCanonicalOnly ==
    Fixing =>
        \A i \in 1..Len(sweepLog) :
            /\ posts[i].image # sweepLog[i].before =>
                   OnCanonicalHost(posts[i].image)
            /\ sweepLog[i].counter \in {"skipped", "errors"} =>
                   posts[i].image = sweepLog[i].before

---------------------------------------------------------------------------
(* Create requests of two workers, any interleaving of their steps *)

\* bodies of concurrent create requests: valid, with equal or different
\* titles, one title whose slug is empty, with or without a remote URL
ConcurrentData ==
    [title : {<<"A", " ">>, <<"!">>}, content : {<<"c">>}, image : {<<>>},
     image_url : ImageUrls, slug : {<<>>}]

CreateStartAny ==
    \E w \in Workers, data \in ConcurrentData :
        /\ Len(posts) + Cardinality(Creating) < Len(EmptySlugPost) + MaxCreates
        /\ WriteStart(w, "create", <<>>, data, FALSE)

CreateNext ==
    \/ CreateStartAny
    \/ WriteUploadAny
    \/ WriteValidateAny
    \/ WriteSaveAny
    \/ WriteSetImageAny

CreateSpec == InitWrite /\ [][CreateNext]_vars

\* no two stored posts hold the same slug
SlugsDistinct ==
    \A i \in PostIds : \A j \in PostIds : i # j => posts[i].slug # posts[j].slug

\* a step answering a create request that passed validation
ValidCreateAnswered ==
    /\ Answered
    /\ resp'.op = "create"
    /\ resp'.status # 400

\* C18: no two stored posts share a slug, and every create request that
\* passes validation is answered 201 with its post stored under a slug that
\* no other stored post holds, whatever the interleaving of two requests.
C18_SlugUniqueUnderCreates ==
    /\ []SlugsDistinct
    /\ [][ValidCreateAnswered =>
              /\ resp'.status = 201
              /\ resp'.id \in DOMAIN posts'
              /\ \A j \in DOMAIN posts' :
                     j # resp'.id => posts'[j].slug # posts'[resp'.id].slug]_vars

---------------------------------------------------------------------------
(* Claims about concurrent like requests *)

\* C19: every like request for a stored post, under any interleaving with
\* another like request, is answered with likes_count and liked; none ends
\* in an unhandled failure.
C19_ConcurrentTogglesAnswered ==
    (resp.op = "like" /\ resp.status # 404) =>
        /\ resp.status = 200
        /\ resp.liked \in BOOLEAN
        /\ resp.likes_count \in Nat

\* a step in which worker w returns the response of a like request
LikeResponded(w) == pc[w] = "like_count" /\ pc'[w] = "idle"

\* C20: the likes_count of a like response is the number of Like rows of the
\* post when the response is built, and a response with liked = true reports
\* a likes_count of at least 1, under any interleaving of like requests.
C20_LikeResponseConsistent ==
    [][\A w \in Workers :
           LikeResponded(w) =>
               /\ resp'.likes_count = LikesCount(likes, loc[w].post)
               /\ resp'.liked => resp'.likes_count >= 1]_vars

---------------------------------------------------------------------------
(* Claim about the store states between the two saves of a write *)

\* the request of worker w carried image_url, its upload succeeded and
\* serializer.save() has written the row with the request's field values
StoredBeforeImage(w) ==
    /\ pc[w] # "idle"
    /\ loc[w].op \in WriteOps
    /\ loc[w].temp_public_id # <<>>
    /\ loc[w].wrote

\* C21: for a create or update with a remote-URL hint whose upload succeeded,
\* in no store state is the post stored with the request's field values and an
\* image reference other than the identifier the collaborator returned
C21_ImageReferenceAtomic ==
    \A w \in Workers :
        StoredBeforeImage(w) =>
            posts[loc[w].inst.id].image = loc[w].temp_public_id

=============================================================================
